---- MODULE Spec2Model ----
(***************************************************************************)
(* Model of the command-line front-ends of waddyano/codesearch:            *)
(*   csearch  (src/cmd/csearch/csearch.go)  - Spec                         *)
(*   cindex   (src/unnamed/part_001)        - SpecIndex                    *)
(*   cdump    (src/cmd/cdump/cdump.go)      - SpecDump                     *)
(*   mmapFile (package index, Windows)      - SpecMmap                     *)
(*   posting lists (package index)          - SpecPost                     *)
(* The packages index and regexp are not part of the sources at hand; the  *)
(* operators that stand for them follow the written specification.         *)
(***************************************************************************)
EXTENDS Integers, Sequences, FiniteSets, TLC

\* ---------------------------------------------------------------- bounds
\* number of files in the index that csearch opens (file-ids 0..MaxFiles-1)
MaxFiles == 3
\* largest value of runtime.GOMAXPROCS(0)
MaxWorkers == 2
\* largest number of matching lines in one file
MaxHits == 2
\* largest value given to -m
MaxCount == 1
\* largest value given to -M
MaxPerFile == 1
\* largest number of arguments after the flags of csearch
MaxArgs == 2

\* number of distinct directories that can be named on the cindex command line
MaxRoots == 2
\* largest number of paths filepath.Walk reports in one run of cindex
MaxPaths == 3
\* capacity of walkChan (10000 at part_001:387, scaled down)
WalkChanCap == 2
\* largest number of files in the index cindex finds when it starts
MaxOld == 1

\* the machine words are scaled down: HalfBits stands for the 32 bits of a
\* uint32, PageBits for the 12 bits of 4095
HalfBits == 4
PageBits == 2
\* largest file-id in a posting list
MaxId == 5
\* bits of a number that one byte of a varint holds (7, scaled down)
VarintBits == 2

FileIds == 0 .. (MaxFiles - 1)
Workers == 1 .. MaxWorkers

VARIABLES
    \* ---- csearch
    pc,          \* position of the main goroutine in Main/main
    oneThread,   \* flag -1
    nParallel,   \* runtime.GOMAXPROCS(0)
    maxCount,    \* flag -m
    fFlag,       \* TRUE iff -f was given (fre # nil)
    qpost,       \* result of ix.PostingQuery
    post,        \* the candidate list that is searched
    g,           \* the grep driver of Main
    matches,     \* package variable matches
    idx,         \* loop index of the loop Main is in
    myg,         \* myg[w]: the grep driver of worker w
    wpc,         \* wpc[w]: position of worker w
    closed,      \* fileChan has been closed
    wg,          \* counter of the sync.WaitGroup
    exitCode,    \* process exit code, -1 while running
    nArgs,       \* len(args), args := flag.Args()
    gL,          \* g.L, flag -l
    gC,          \* g.C, flag -c
    maxCountPerFile, \* *maxCountPerFile, flag -M
    opened,      \* index.Open has been called
    \* ---- csearch, observation of the run
    searched,    \* file-ids in the order their File calls began
    produced,    \* some File call emitted a match
    printed,     \* matches printed so far, all drivers together
    usedBy,      \* usedBy[r]: goroutines that matched with regexp instance r
    \* ---- cindex
    ipc,         \* position of the main goroutine in main
    resetFlag,   \* *resetFlag
    noFollow,    \* *noFollowSymlinksFlag
    hadIndex,    \* a master index existed when the run began
    args,        \* args
    fs,          \* fs[p]: what the file system holds at index path p
    file,        \* file, the path given to index.Create
    roots,       \* the list the writer got by AddPaths
    wstack,      \* the walk calls in progress, innermost last
    wi,          \* position of the loop over args (1-based)
    pending,     \* the value main is sending on walkChan
    walkChan,    \* contents of walkChan, oldest first
    cpc,         \* position of the consumer goroutine
    seen,        \* seen, as the set of paths mapped to true
    inWriter,    \* goroutines that are inside a method of the writer
    \* ---- cindex, observation of the run
    wlog,        \* writer operations in the order they began
    added,       \* the (rootIndex, path) pairs given to AddFile, in order
    nEmitted,    \* paths the walker has sent
    nConsumed,   \* paths the consumer has received
    nVisited,    \* paths filepath.Walk has reported
    content,     \* content[p]: the file names of the index at p, by file-id
    names,       \* the files the writer has indexed, by file-id
    oldIndex,    \* the file names of the index found when the run began
    emitted,     \* what the walk callback sent, in order, and from where
    walkErr,     \* a path of the walk has met an error
    \* ---- mmapFile (package index, mmap_windows.go)
    mpc,         \* position in mmapFile
    msize,       \* st.Size() of the index file
    intBits,     \* width of int in the build
    mapHigh,     \* maxSizeHigh given to CreateFileMapping
    mapLow,      \* maxSizeLow given to CreateFileMapping
    viewLen,     \* bytes that MapViewOfFile has mapped
    dataLen,     \* sh.Len
    dataCap,     \* sh.Cap
    \* ---- posting lists (package index, writer and reader)
    ppc,         \* position: the list is to be encoded, decoded, done
    fileids,     \* the posting list the writer has for a trigram
    enc,         \* its encoding in the index file
    dec,         \* what the reader decodes from enc
    \* ---- cdump
    dpc,         \* position in Main/main of cdump
    verboseFlag, \* *verboseFlag
    namesFlag,   \* *names
    dArgs,       \* len(flag.Args())
    indexPath,   \* TRUE iff -indexpath was given
    envIndex,    \* TRUE iff CSEARCHINDEX is the value of -indexpath
    ixVerbose,   \* ix.Verbose
    ixFiles,     \* the files of the index ix reads
    options,     \* options
    dumpSaw,     \* what ix.Dump was run with
    dExit        \* exit code of cdump, -1 while running

svars == <<pc, oneThread, nParallel, maxCount, fFlag, qpost, post, g, matches,
           idx, myg, wpc, closed, wg, exitCode, searched, produced, printed,
           usedBy, nArgs, gL, gC, maxCountPerFile, opened>>

\* the command line of csearch, as far as Main checks it
sflags == <<nArgs, gL, gC, maxCountPerFile>>

ivars == <<ipc, resetFlag, noFollow, hadIndex, args, fs, file, roots, wstack, wi,
           pending, walkChan, cpc, seen, inWriter, wlog, added, nEmitted,
           nConsumed, nVisited, content, names, oldIndex, emitted, walkErr>>

\* the observations of cindex that most steps leave alone
iobs == <<content, names, oldIndex, emitted, walkErr>>

mvars == <<mpc, msize, intBits, mapHigh, mapLow, viewLen, dataLen, dataCap>>

pvars == <<ppc, fileids, enc, dec>>

dvars == <<dpc, verboseFlag, namesFlag, dArgs, indexPath, envIndex, ixVerbose,
           ixFiles, options, dumpSaw, dExit>>

\* the variables of the other programs
xvars == <<mvars, pvars, dvars>>

nonSearch == <<ivars, xvars>>

nonIndex == <<svars, xvars>>

nonMmap == <<svars, ivars, pvars, dvars>>

nonPost == <<svars, ivars, mvars, dvars>>

nonDump == <<svars, ivars, mvars, pvars>>

vars == <<svars, ivars, xvars>>

\* ------------------------------------------------------------ helpers
Min(a, b) == IF a < b THEN a ELSE b

Range(s) == {s[i] : i \in 1 .. Len(s)}

IsAscending(s) == \A i \in 1 .. Len(s), j \in 1 .. Len(s) : i < j => s[i] < s[j]

\* the ascending sequence of the members of a set of numbers
RECURSIVE SortedSeq(_)
SortedSeq(S) ==
    IF S = {} THEN <<>>
    ELSE LET m == CHOOSE x \in S : \A y \in S : x <= y
         IN <<m>> \o SortedSeq(S \ {m})

\* ------------------------------------------------- package index (reader)
\* ix.PostingQuery: a sorted list of file-ids, here of any set of candidates
PostingQuery(cands) == SortedSeq(cands)

\* -------------------------------------------------- package regexp (Grep)
\* regexp instance compiled at csearch.go:121
MainRegexp == 0

\* the Grep value built at csearch.go:86 with g.Regexp = re
NewGrep == [Regexp |-> MainRegexp, Match |-> FALSE, Done |-> FALSE,
            printCount |-> 0, limitPrintCount |-> 0]

\* g.LimitPrintCount(global, perFile)
LimitPrintCount(gr, global) == [gr EXCEPT !.limitPrintCount = global]

\* matches that a File call on a file with h matching lines emits
Emitted(gr, h) ==
    IF gr.Done THEN 0
    ELSE IF gr.limitPrintCount > 0
         THEN Min(h, gr.limitPrintCount - gr.printCount)
         ELSE h

\* g.File(name) on a file with h matching lines
GrepFile(gr, h) ==
    LET p == Emitted(gr, h)
    IN [gr EXCEPT !.Match = @ \/ p > 0,
                  !.printCount = @ + p,
                  !.Done = @ \/ (gr.limitPrintCount > 0
                                 /\ gr.printCount + p >= gr.limitPrintCount)]

\* ------------------------------------------------------- csearch: Main
\* the -f filter, csearch.go:150-165: fnames keeps the ids whose name matches
FilterNamesRev(p, matching) ==
    LET RECURSIVE rev(_)
        rev(s) == IF s = <<>> THEN <<>> ELSE Append(rev(Tail(s)), Head(s))
    IN rev(SelectSeq(p, LAMBDA f : f \in matching))

FilterNames(p, matching) == SelectSeq(p, LAMBDA f : f \in matching)

\* pg := g; pg.Regexp = pre (csearch.go:188-193)
WorkerGrepShared(gr, pre) == gr

WorkerGrep(gr, pre) == [gr EXCEPT !.Regexp = pre]

\* wg.Add(nParallel) (csearch.go:185)
WgAddOne(n) == 1

WgAdd(n) == n

\* csearch.go:96: the condition under which Main calls usage()
UsageErrorLax(n, l, c, m) == n # 1 \/ (l /\ c) \/ (l /\ m > 0)

UsageError(n, l, c, m) == n # 1 \/ (l /\ c) \/ (l /\ m > 0) \/ (c /\ m > 0)

\* csearch.go:207-212: the loop over post has sent every file
ProducerDoneEarly(i, p) == i >= Len(p)

ProducerDone(i, p) == i > Len(p)

\* wg.Done() (csearch.go:198)
WgDoneNone(n) == n

WgDone(n) == n - 1

SearchInit ==
    /\ pc = "start"
    /\ oneThread \in BOOLEAN
    /\ nParallel \in 1 .. MaxWorkers
    /\ maxCount \in 0 .. MaxCount
    /\ fFlag \in BOOLEAN
    /\ qpost = <<>>
    /\ post = <<>>
    /\ g = NewGrep
    /\ matches = FALSE
    /\ idx = 0
    /\ myg = [w \in Workers |-> NewGrep]
    /\ wpc = [w \in Workers |-> "none"]
    /\ closed = FALSE
    /\ wg = 0
    /\ exitCode = -1
    /\ searched = <<>>
    /\ produced = FALSE
    /\ printed = 0
    /\ usedBy = [r \in 0 .. MaxWorkers |-> {}]
    /\ nArgs \in 0 .. MaxArgs
    /\ gL \in BOOLEAN
    /\ gC \in BOOLEAN
    /\ maxCountPerFile \in 0 .. MaxPerFile
    /\ opened = FALSE

\* csearch.go:92-98 and 66-69: a bad command line ends in usage(), which
\* exits with code 2
Usage ==
    /\ pc = "start"
    /\ IF UsageError(nArgs, gL, gC, maxCountPerFile)
       THEN pc' = "usage" /\ exitCode' = 2
       ELSE pc' = "open" /\ exitCode' = exitCode
    /\ UNCHANGED <<nonSearch, sflags, opened>>
    /\ UNCHANGED <<oneThread, nParallel, maxCount, fFlag, qpost, post, g, matches,
                   idx, myg, wpc, closed, wg, searched, produced, printed,
                   usedBy>>

\* csearch.go:138-148: open the index and run the posting query
Query ==
    /\ pc = "open"
    /\ opened' = TRUE
    /\ \E cands \in SUBSET FileIds :
          /\ qpost' = PostingQuery(cands)
          /\ post' = PostingQuery(cands)
    /\ pc' = "filter"
    /\ UNCHANGED <<nonSearch, sflags>>
    /\ UNCHANGED <<oneThread, nParallel, maxCount, fFlag, g, matches, idx, myg,
                   wpc, closed, wg, exitCode, searched, produced, printed,
                   usedBy>>

\* csearch.go:150-165
Filter ==
    /\ pc = "filter"
    /\ IF fFlag
       THEN \E matching \in SUBSET FileIds : post' = FilterNames(post, matching)
       ELSE post' = post
    /\ pc' = "limit"
    /\ UNCHANGED <<nonSearch, sflags, opened>>
    /\ UNCHANGED <<oneThread, nParallel, maxCount, fFlag, qpost, g, matches, idx,
                   myg, wpc, closed, wg, exitCode, searched, produced, printed,
                   usedBy>>

\* csearch.go:167-171 and 183-185
Limit ==
    /\ pc = "limit"
    /\ g' = LimitPrintCount(g, maxCount)
    /\ idx' = 1
    /\ IF oneThread
       THEN pc' = "single" /\ wg' = wg
       ELSE pc' = "spawn" /\ wg' = WgAdd(nParallel)
    /\ UNCHANGED <<nonSearch, sflags, opened>>
    /\ UNCHANGED <<oneThread, nParallel, maxCount, fFlag, qpost, post, matches,
                   myg, wpc, closed, exitCode, searched, produced, printed,
                   usedBy>>

\* csearch.go:172-174: the single-worker loop calls g.File
SingleCall ==
    /\ pc = "single"
    /\ idx <= Len(post)
    /\ pc' = "singleFile"
    /\ searched' = Append(searched, post[idx])
    /\ usedBy' = [usedBy EXCEPT ![g.Regexp] = @ \cup {0}]
    /\ UNCHANGED <<nonSearch, sflags, opened>>
    /\ UNCHANGED <<oneThread, nParallel, maxCount, fFlag, qpost, post, g, matches,
                   idx, myg, wpc, closed, wg, exitCode, produced, printed>>

\* csearch.go:174-179: g.File returns; break when g.Done
SingleReturn ==
    /\ pc = "singleFile"
    /\ \E h \in 0 .. MaxHits :
          /\ g' = GrepFile(g, h)
          /\ produced' = (produced \/ Emitted(g, h) > 0)
          /\ printed' = printed + Emitted(g, h)
    /\ IF g'.Done
       THEN pc' = "singleEnd" /\ idx' = idx
       ELSE pc' = "single" /\ idx' = idx + 1
    /\ UNCHANGED <<nonSearch, sflags, opened>>
    /\ UNCHANGED <<oneThread, nParallel, maxCount, fFlag, qpost, post, matches,
                   myg, wpc, closed, wg, exitCode, searched, usedBy>>

\* csearch.go:172 (range exhausted) and 181: matches = g.Match
SingleEnd ==
    /\ \/ pc = "single" /\ idx > Len(post)
       \/ pc = "singleEnd"
    /\ matches' = g.Match
    /\ pc' = "ret"
    /\ UNCHANGED <<nonSearch, sflags, opened>>
    /\ UNCHANGED <<oneThread, nParallel, maxCount, fFlag, qpost, post, g, idx,
                   myg, wpc, closed, wg, exitCode, searched, produced, printed,
                   usedBy>>

\* csearch.go:187-205: one iteration of the loop that starts the workers
Spawn ==
    /\ pc = "spawn"
    /\ idx <= nParallel
    /\ myg' = [myg EXCEPT ![idx] = WorkerGrep(g, idx)]
    /\ wpc' = [wpc EXCEPT ![idx] = "recv"]
    /\ idx' = IF idx = nParallel THEN 1 ELSE idx + 1
    /\ pc' = IF idx = nParallel THEN "produce" ELSE "spawn"
    /\ UNCHANGED <<nonSearch, sflags, opened>>
    /\ UNCHANGED <<oneThread, nParallel, maxCount, fFlag, qpost, post, g, matches,
                   closed, wg, exitCode, searched, produced, printed, usedBy>>

\* csearch.go:207-210 and 196-202: fileChan is unbuffered, so the send of
\* post[idx] and the receive by worker w are one step; w then calls myg.File
Send(w) ==
    /\ pc = "produce"
    /\ ~ProducerDone(idx, post)
    /\ wpc[w] = "recv"
    /\ ~closed
    /\ wpc' = [wpc EXCEPT ![w] = "file"]
    /\ idx' = idx + 1
    /\ searched' = Append(searched, post[idx])
    /\ usedBy' = [usedBy EXCEPT ![myg[w].Regexp] = @ \cup {w}]
    /\ UNCHANGED <<nonSearch, sflags, opened>>
    /\ UNCHANGED <<pc, oneThread, nParallel, maxCount, fFlag, qpost, post, g,
                   matches, myg, closed, wg, exitCode, produced, printed>>

\* csearch.go:202: myg.File returns in worker w
WorkerReturn(w) ==
    /\ wpc[w] = "file"
    /\ \E h \in 0 .. MaxHits :
          /\ myg' = [myg EXCEPT ![w] = GrepFile(myg[w], h)]
          /\ produced' = (produced \/ Emitted(myg[w], h) > 0)
          /\ printed' = printed + Emitted(myg[w], h)
    /\ wpc' = [wpc EXCEPT ![w] = "recv"]
    /\ UNCHANGED <<nonSearch, sflags, opened>>
    /\ UNCHANGED <<pc, oneThread, nParallel, maxCount, fFlag, qpost, post, g,
                   matches, idx, closed, wg, exitCode, searched, usedBy>>

\* csearch.go:212: close(fileChan) after the last send
Close ==
    /\ pc = "produce"
    /\ ProducerDone(idx, post)
    /\ closed' = TRUE
    /\ pc' = "wait"
    /\ UNCHANGED <<nonSearch, sflags, opened>>
    /\ UNCHANGED <<oneThread, nParallel, maxCount, fFlag, qpost, post, g, matches,
                   idx, myg, wpc, wg, exitCode, searched, produced, printed,
                   usedBy>>

\* csearch.go:196-200: worker w finds the channel closed
WorkerExit(w) ==
    /\ wpc[w] = "recv"
    /\ closed
    /\ wg' = WgDone(wg)
    /\ wpc' = [wpc EXCEPT ![w] = "done"]
    /\ UNCHANGED <<nonSearch, sflags, opened>>
    /\ UNCHANGED <<pc, oneThread, nParallel, maxCount, fFlag, qpost, post, g,
                   matches, idx, myg, closed, exitCode, searched, produced,
                   printed, usedBy>>

\* csearch.go:213: wg.Wait() returns
Wait ==
    /\ pc = "wait"
    /\ wg = 0
    /\ pc' = "ret"
    /\ UNCHANGED <<nonSearch, sflags, opened>>
    /\ UNCHANGED <<oneThread, nParallel, maxCount, fFlag, qpost, post, g, matches,
                   idx, myg, wpc, closed, wg, exitCode, searched, produced,
                   printed, usedBy>>

\* csearch.go:217-223: main exits with 1 unless matches
MainExit ==
    /\ pc = "ret"
    /\ exitCode' = IF ~matches THEN 1 ELSE 0
    /\ pc' = "exit"
    /\ UNCHANGED <<nonSearch, sflags, opened>>
    /\ UNCHANGED <<oneThread, nParallel, maxCount, fFlag, qpost, post, g, matches,
                   idx, myg, wpc, closed, wg, searched, produced, printed,
                   usedBy>>

SearchNext ==
    \/ Usage
    \/ Query
    \/ Filter
    \/ Limit
    \/ SingleCall
    \/ SingleReturn
    \/ SingleEnd
    \/ Spawn
    \/ \E w \in Workers : Send(w)
    \/ \E w \in Workers : WorkerReturn(w)
    \/ Close
    \/ \E w \in Workers : WorkerExit(w)
    \/ Wait
    \/ MainExit

\* ------------------------------------------------------ claims, csearch
AnyDone == g.Done \/ \E w \in Workers : wpc[w] # "none" /\ myg[w].Done

FileCallBegins == \E f \in FileIds : searched' = Append(searched, f)

\* C1: csearch exits with code 0 iff a searched file produced a match, and
\* with code 1 iff none did, in single-worker mode and in parallel mode.
C1_ExitCodeReflectsMatch ==
    pc = "exit" => /\ (exitCode = 0 <=> produced)
                   /\ (exitCode = 1 <=> ~produced)

\* C2: with -m N, N > 0, the matches printed by one run, all workers and all
\* files together, never exceed N.
C2_GlobalLimitRespected == maxCount > 0 => printed <= maxCount

\* C3: once a Done flag is set (the driver of Main or of any worker), no
\* File call begins.
C3_NoFileAfterDone == [][FileCallBegins => ~AnyDone]_vars

\* C6: Main returns only after the channel is closed (parallel mode) and no
\* worker is inside File or still running.
C6_NoExitDuringFile ==
    pc \in {"ret", "exit"} =>
        /\ \A w \in Workers : wpc[w] \in {"none", "done"}
        /\ ~oneThread => closed /\ \A w \in 1 .. nParallel : wpc[w] = "done"

\* C6 witness: parallel run with two workers that both searched a file, ended
C6_Witness ==
    /\ pc = "exit"
    /\ ~oneThread
    /\ nParallel = 2
    /\ Len(searched) >= 2
    /\ usedBy[1] = {1}
    /\ usedBy[2] = {2}

\* C7: in single-worker mode the files are searched in ascending file-id
\* order, also when the -f filter removed candidates.
C7_SingleAscending == oneThread => IsAscending(searched)

\* C7 witness: -1 with -f; the filter removed a candidate between two that
\* were kept, and both were searched
C7_Witness ==
    /\ oneThread
    /\ fFlag
    /\ qpost = <<0, 1, 2>>
    /\ post = <<0, 2>>
    /\ searched = <<0, 2>>

\* C8: no compiled regexp instance is used by two goroutines, the workers'
\* instances differ from each other and from the one of Main's driver, which
\* no worker uses.
C8_RegexpPerWorker ==
    /\ \A r \in DOMAIN usedBy : Cardinality(usedBy[r]) <= 1
    /\ \A w \in Workers : w \notin usedBy[g.Regexp]
    /\ \A w \in Workers : wpc[w] # "none" => myg[w].Regexp # g.Regexp
    /\ \A v, w \in Workers :
          (v # w /\ wpc[v] # "none" /\ wpc[w] # "none")
              => myg[v].Regexp # myg[w].Regexp

\* C8 witness: two workers are inside File at the same time
C8_Witness ==
    /\ ~oneThread
    /\ wpc[1] = "file"
    /\ wpc[2] = "file"

\* the command line is one that csearch refuses: not exactly one argument
\* after the flags, or two of -l, -c and -M (with a value above 0) together
BadCommandLine ==
    \/ nArgs # 1
    \/ gL /\ gC
    \/ gL /\ maxCountPerFile > 0
    \/ gC /\ maxCountPerFile > 0

\* C15: csearch exits with code 2, without opening the index and without
\* searching a file, when the number of arguments is not 1 or when -l is
\* given with -c, -l with -M > 0, or -c with -M > 0.
C15_UsageExit ==
    BadCommandLine =>
        /\ pc \in {"start", "usage"}
        /\ pc = "usage" => exitCode = 2
        /\ ~opened
        /\ searched = <<>>

\* C15 witness: csearch has exited with code 2 for one argument with -c and
\* -M 1
C15_Witness ==
    /\ pc = "usage"
    /\ exitCode = 2
    /\ nArgs = 1
    /\ gC
    /\ ~gL
    /\ maxCountPerFile = 1

\* the run searches with the worker goroutines
Parallel == ~oneThread /\ pc \notin {"start", "usage"}

\* C19: in parallel mode every file-id of the candidate list is handed to
\* exactly one worker and searched exactly once, and no file outside the
\* list is searched: the File calls of the workers begin in the order of
\* the list, and when Main returns they are the list.
C19_EachFileOnce ==
    Parallel =>
        /\ Len(searched) <= Len(post)
        /\ \A i \in 1 .. Len(searched) : searched[i] = post[i]
        /\ Cardinality({w \in Workers : wpc[w] = "file"}) <= Len(searched)
        /\ pc \in {"ret", "exit"} => searched = post

\* C19 witness: a parallel run with two workers has ended, each worker has
\* searched, the list had three files
C19_Witness ==
    /\ Parallel
    /\ pc = "exit"
    /\ Len(post) = 3
    /\ searched = post
    /\ usedBy[1] = {1}
    /\ usedBy[2] = {2}

\* C20: the parallel search always ends: every send completes, the channel
\* is closed, every worker has signalled the wait group once, and the wait
\* returns, for any number of workers and any candidate list.
C20_ParallelTerminates ==
    <>(/\ pc \in {"exit", "usage"}
       /\ Parallel => /\ closed
                      /\ wg = 0
                      /\ searched = post
                      /\ \A w \in 1 .. nParallel : wpc[w] = "done")

\* C20 witness: a parallel run with two workers and one candidate file has
\* ended
C20_Witness ==
    /\ Parallel
    /\ pc = "exit"
    /\ nParallel = 2
    /\ Len(post) = 1
    /\ closed
    /\ wg = 0

\* ------------------------------------------------------ cindex: helpers
\* index.File(): the master index path
master == "m"

\* the index paths the run can touch: master, master~ and master~~
IndexPaths == {master, master \o "~", master \o "~~"}

\* fs[p] is "absent" (no file), "partial" (a file being written) or a sealed
\* index: "old" (found at start), "new" (freshly built), "merged"

\* a path of the file tree is the sequence of its components; the first is
\* the number of a directory named on the command line, 0 stands for ""
ArgLists == UNION {[1 .. n -> 1 .. MaxRoots] : n \in 0 .. MaxRoots}

\* what filepath.Walk hands to the callback for one path
\* (type "none": info is nil); matchErr: filepath.Match reports a malformed
\* exclude pattern
EntryFields == [type : {"dir", "regular", "symlink", "special", "none"},
                excluded : BOOLEAN, err : BOOLEAN, resolves : BOOLEAN,
                matchErr : BOOLEAN]

\* filepath.Walk passes an error exactly with the paths it could not stat
\* (info is nil) and with the directories it could not read
WalkPasses(e) ==
    /\ e.err => e.type \in {"none", "dir"}
    /\ e.type = "none" => e.err

\* resolves (filepath.EvalSymlinks succeeds) is read for a symlink that is
\* not excluded only, and nothing else is read once filepath.Match has
\* failed: of the entries that differ in a field that is not read, the one
\* with FALSE there is kept
FieldsRead(e) ==
    /\ e.resolves => e.type = "symlink" /\ ~e.excluded
    /\ e.matchErr => ~e.excluded /\ ~e.resolves

Entries == {e \in EntryFields : WalkPasses(e) /\ FieldsRead(e)}

\* the i-th file of the index found at start
OldFile(i) == <<-i>>

\* the indexes cindex can find at start, as the list of their file names
OldIndexes == {[i \in 1 .. n |-> OldFile(i)] : n \in 0 .. MaxOld}

NoItem == <<-2, <<>>>>

\* the value sent at part_001:436-439
Sentinel == <<-1, <<>>>>

\* filepath.Abs fails for the arguments at the positions in failing
\* (part_001:345-353)
AbsAll(a, failing) == [i \in 1 .. Len(a) |-> IF i \in failing THEN 0 ELSE a[i]]

RECURSIVE Insert(_, _)
Insert(x, s) ==
    IF s = <<>> THEN <<x>>
    ELSE IF x <= Head(s) THEN <<x>> \o s
         ELSE <<Head(s)>> \o Insert(x, Tail(s))

SortStringsNone(s) == s

\* sort.Strings(args) (part_001:354)
RECURSIVE SortStrings(_)
SortStrings(s) == IF s = <<>> THEN <<>> ELSE Insert(Head(s), SortStrings(Tail(s)))

\* part_001:356-358
RECURSIVE DropEmpty(_)
DropEmpty(s) == IF s # <<>> /\ Head(s) = 0 THEN DropEmpty(Tail(s)) ELSE s

\* index.Create(p): a new index file is begun at p
IndexCreate(f, p) == [f EXCEPT ![p] = "partial"]

\* ix.Flush(): the file the writer was created on is finished and sealed
IndexFlush(f, p) == [f EXCEPT ![p] = "new"]

\* index.Merge(dst, src1, src2) starts writing dst
IndexMergeBegin(f, dst) == [f EXCEPT ![dst] = "partial"]

\* index.Merge(dst, src1, src2) has written and sealed dst
IndexMergeEnd(f, dst) == [f EXCEPT ![dst] = "merged"]

\* ix.AddFile(rootIndex, path): the file gets the next file-id if and only
\* if it is indexed
WriterAddFile(nm, path, ok) == IF ok THEN Append(nm, path) ELSE nm

\* ix.Flush(): the sealed index holds the files the writer has indexed
IndexFlushFiles(c, p, nm) == [c EXCEPT ![p] = nm]

\* index.Merge: the file-ids of A are preserved, those of B are shifted by
\* the number of files of A
IndexMerge(c, dst, srcA, srcB) == [c EXCEPT ![dst] = c[srcA] \o c[srcB]]

\* part_001:446: index.Merge(file+"~", master, file); the first argument is
\* the file that is renamed to master at 449, the sources follow in the
\* order A, B
MergeArgsSwapped(f) == [dst |-> f \o "~", srcA |-> f, srcB |-> master]

MergeArgs(f) == [dst |-> f \o "~", srcA |-> master, srcB |-> f]

\* os.Remove(p)
Remove(f, p) == [f EXCEPT ![p] = "absent"]

RemoveFiles(c, p) == [c EXCEPT ![p] = <<>>]

RenameFiles(c, f, from, to) ==
    IF f[from] = "absent" THEN c
    ELSE [c EXCEPT ![to] = c[from], ![from] = <<>>]

\* os.Rename(from, to)
Rename(f, from, to) ==
    IF f[from] = "absent" THEN f
    ELSE [f EXCEPT ![to] = f[from], ![from] = "absent"]

\* part_001:370-373: the path the new index is written to
IndexFileInPlace(reset) == master

IndexFile(reset) == IF reset THEN master ELSE master \o "~"

\* part_001:397: the consumer stops at the value whose path is ""
IsEndByRoot(item) == item[1] = -1

IsEnd(item) == item[2] = <<>>

\* part_001:440: main receives from doneChan what the consumer sends at 399
DoneNotAwaited == TRUE

DoneReceived == cpc = "signal"

\* part_001:128-245, the callback of filepath.Walk: what it does with one
\* entry. "emit": sends the path; "recurse": walks the symlink's target;
\* "skipdir": returns filepath.SkipDir; "descend", "skip": returns nil;
\* "fatal": log.Fatal at 141
WalkFnStrict(e, nofollow) ==
    IF e.matchErr \/ e.err \/ e.type \in {"none", "special"} THEN "fatal"
    ELSE IF e.type = "dir" THEN IF e.excluded THEN "skipdir" ELSE "descend"
    ELSE IF e.excluded THEN "skip"
    ELSE IF e.type = "regular" THEN "emit"
    ELSE IF nofollow THEN "skip"
    ELSE IF e.resolves THEN "recurse" ELSE "fatal"

WalkFn(e, nofollow) ==
    LET isDir == e.type = "dir"
    IN IF e.matchErr THEN "fatal"
       ELSE IF isDir /\ e.excluded THEN "skipdir"
       ELSE IF ~isDir /\ e.excluded THEN "skip"
       ELSE IF ~isDir /\ e.type = "symlink"
            THEN IF nofollow THEN "skip"
                 ELSE IF ~e.resolves THEN "skip" ELSE "recurse"
       ELSE IF e.err THEN "skip"
       ELSE IF e.type = "none" THEN "skip"
       ELSE IF e.type = "regular" THEN "emit"
       ELSE IF ~isDir THEN "skip"
       ELSE "descend"

\* the name the callback reports for entry ent of a walk:
\* path, or symlinkFrom + path[len(arg):]
ShownPath(fr) == IF fr.ent = 0 THEN fr.from ELSE Append(fr.from, fr.ent)

\* part_001:215-224: the value sent for a regular file
WalkItemRoot(fr, rootNo) == <<rootNo, ShownPath(fr)>>

WalkItem(fr, rootNo) == <<IF fr.sym THEN -1 ELSE rootNo, ShownPath(fr)>>

\* the entry met an error of its own: a failed stat, an unreadable
\* directory, an unresolvable symlink that is followed, an unsupported type
IsPathError(e, nofollow) ==
    /\ ~e.matchErr
    /\ ~e.excluded
    /\ \/ e.err
       \/ e.type \in {"none", "special"}
       \/ e.type = "symlink" /\ ~nofollow /\ ~e.resolves

Top(st) == st[Len(st)]

Pop(st) == SubSeq(st, 1, Len(st) - 1)

\* the walk moves past the entry it has just visited: the argument of a walk
\* that is no directory (or is skipped) ends that walk
Advance(st, intoDir) ==
    LET fr == Top(st)
    IN IF fr.ent = 0 /\ ~intoDir THEN Pop(st)
       ELSE [st EXCEPT ![Len(st)].ent = @ + 1]

\* ----------------------------------------------------------- cindex: main
IndexInit ==
    /\ ipc = "start"
    /\ resetFlag \in BOOLEAN
    /\ noFollow \in BOOLEAN
    /\ hadIndex \in BOOLEAN
    /\ args \in ArgLists
    /\ fs = [p \in IndexPaths |-> IF p = master /\ hadIndex THEN "old" ELSE "absent"]
    /\ file = ""
    /\ roots = <<>>
    /\ wstack = <<>>
    /\ wi = 0
    /\ pending = NoItem
    /\ walkChan = <<>>
    /\ cpc = "none"
    /\ seen = {}
    /\ inWriter = {}
    /\ wlog = <<>>
    /\ added = <<>>
    /\ nEmitted = 0
    /\ nConsumed = 0
    /\ nVisited = 0
    /\ oldIndex \in IF hadIndex THEN OldIndexes ELSE {<<>>}
    /\ content = [p \in IndexPaths |-> IF p = master THEN oldIndex ELSE <<>>]
    /\ names = <<>>
    /\ emitted = <<>>
    /\ walkErr = FALSE

\* part_001:284-296: cindex -reset without paths removes the index
Reset ==
    /\ ipc = "start"
    /\ IF resetFlag /\ args = <<>>
       THEN /\ fs' = Remove(fs, master)
            /\ content' = RemoveFiles(content, master)
            /\ ipc' = "done"
       ELSE /\ fs' = fs
            /\ content' = content
            /\ ipc' = "args"
    /\ UNCHANGED <<nonIndex, nVisited, names, oldIndex, emitted, walkErr>>
    /\ UNCHANGED <<resetFlag, noFollow, hadIndex, args, file, roots, wstack, wi,
                   pending, walkChan, cpc, seen, inWriter, wlog, added, nEmitted,
                   nConsumed>>

\* part_001:335-358: without paths take those of the index; make the paths
\* absolute, sort them, drop the ones that could not be made absolute
LoadArgs ==
    /\ ipc = "args"
    /\ IF args = <<>> /\ fs[master] = "absent"
       THEN ipc' = "fatal" /\ args' = args
       ELSE /\ ipc' = "stat"
            /\ \E a \in ArgLists :
                  /\ args # <<>> => a = args
                  /\ \E failing \in SUBSET (1 .. Len(a)) :
                        args' = DropEmpty(SortStrings(AbsAll(a, failing)))
    /\ UNCHANGED <<nonIndex, nVisited, iobs>>
    /\ UNCHANGED <<resetFlag, noFollow, hadIndex, fs, file, roots, wstack, wi,
                   pending, walkChan, cpc, seen, inWriter, wlog, added, nEmitted,
                   nConsumed>>

\* part_001:360-373: no index at master means -reset
Stat ==
    /\ ipc = "stat"
    /\ resetFlag' = (resetFlag \/ fs[master] = "absent")
    /\ file' = IndexFile(resetFlag')
    /\ ipc' = "create"
    /\ UNCHANGED <<nonIndex, nVisited, iobs>>
    /\ UNCHANGED <<noFollow, hadIndex, args, fs, roots, wstack, wi, pending,
                   walkChan, cpc, seen, inWriter, wlog, added, nEmitted,
                   nConsumed>>

\* part_001:375-382: index.Create(file) and ix.AddPaths(args)
Create ==
    /\ ipc = "create"
    /\ fs' = IndexCreate(fs, file)
    /\ content' = RemoveFiles(content, file)
    /\ names' = <<>>
    /\ wlog' = Append(wlog, "Create")
    /\ roots' = args
    /\ ipc' = "go"
    /\ UNCHANGED <<nonIndex, nVisited, oldIndex, emitted, walkErr>>
    /\ UNCHANGED <<resetFlag, noFollow, hadIndex, args, file, wstack, wi, pending,
                   walkChan, cpc, seen, inWriter, added, nEmitted, nConsumed>>

\* part_001:384-414: make the channels and start the consumer goroutine
Go ==
    /\ ipc = "go"
    /\ cpc' = "recv"
    /\ wi' = 1
    /\ ipc' = "walk"
    /\ UNCHANGED <<nonIndex, nVisited, iobs>>
    /\ UNCHANGED <<resetFlag, noFollow, hadIndex, args, fs, file, roots, wstack,
                   pending, walkChan, seen, inWriter, wlog, added, nEmitted,
                   nConsumed>>

\* part_001:419-422: walk(i, arg, &stats, "", walkChan, ...)
WalkCall ==
    /\ ipc = "walk"
    /\ wstack = <<>>
    /\ wi <= Len(args)
    /\ wstack' = <<[from |-> <<args[wi]>>, sym |-> FALSE, ent |-> 0]>>
    /\ UNCHANGED <<nonIndex, nVisited, iobs>>
    /\ UNCHANGED <<ipc, resetFlag, noFollow, hadIndex, args, fs, file, roots, wi,
                   pending, walkChan, cpc, seen, inWriter, wlog, added, nEmitted,
                   nConsumed>>

\* part_001:128-245: filepath.Walk calls the callback for the next path
Visit ==
    /\ ipc = "walk"
    /\ wstack # <<>>
    /\ nVisited < MaxPaths \/ Top(wstack).ent = 0
    /\ nVisited' = Min(nVisited + 1, MaxPaths)
    /\ \E e \in Entries :
          LET fr == Top(wstack)
              out == WalkFn(e, noFollow)
              rest == Advance(wstack, out = "descend")
          IN \* the file tree has MaxPaths paths, any other does not exist
             /\ nVisited >= MaxPaths => e.type = "none"
             \* filepath.EvalSymlinks never returns a symlink
             /\ ~(fr.sym /\ fr.ent = 0 /\ e.type = "symlink")
             /\ out = "recurse" => Len(wstack) < 2
             /\ wstack' = IF out = "recurse"
                          THEN Append(rest, [from |-> ShownPath(fr), sym |-> TRUE,
                                             ent |-> 0])
                          ELSE rest
             /\ pending' = IF out = "emit" THEN WalkItem(fr, wi - 1) ELSE pending
             /\ emitted' = IF out = "emit"
                           THEN Append(emitted, [item |-> WalkItem(fr, wi - 1),
                                                 sym |-> fr.sym,
                                                 from |-> fr.from])
                           ELSE emitted
             /\ walkErr' = (walkErr \/ IsPathError(e, noFollow))
             \* log.Fatal ends the run, its message tells why
             /\ ipc' = CASE out = "emit" -> "send"
                         [] out = "fatal" /\ e.matchErr -> "fatalPattern"
                         [] out = "fatal" /\ ~e.matchErr -> "fatalPath"
                         [] OTHER -> "walk"
             /\ wi' = IF wstack' = <<>> THEN wi + 1 ELSE wi
    /\ UNCHANGED <<nonIndex, content, names, oldIndex>>
    /\ UNCHANGED <<resetFlag, noFollow, hadIndex, args, fs, file, roots, walkChan,
                   cpc, seen, inWriter, wlog, added, nEmitted, nConsumed>>

\* part_001:245-247: filepath.Walk has no more paths, walk returns
WalkReturn ==
    /\ ipc = "walk"
    /\ wstack # <<>>
    /\ Top(wstack).ent >= 1
    /\ wstack' = Pop(wstack)
    /\ wi' = IF wstack' = <<>> THEN wi + 1 ELSE wi
    /\ UNCHANGED <<nonIndex, nVisited, iobs>>
    /\ UNCHANGED <<ipc, resetFlag, noFollow, hadIndex, args, fs, file, roots,
                   pending, walkChan, cpc, seen, inWriter, wlog, added, nEmitted,
                   nConsumed>>

\* part_001:423-439: after the last walk main sends the value that ends the
\* consumer
WalkDone ==
    /\ ipc = "walk"
    /\ wstack = <<>>
    /\ wi > Len(args)
    /\ pending' = Sentinel
    /\ ipc' = "send"
    /\ UNCHANGED <<nonIndex, nVisited, iobs>>
    /\ UNCHANGED <<resetFlag, noFollow, hadIndex, args, fs, file, roots, wstack, wi,
                   walkChan, cpc, seen, inWriter, wlog, added, nEmitted,
                   nConsumed>>

\* part_001:216-224 and 436-439: a send on walkChan, which blocks while the
\* channel is full
Send_walkChan ==
    /\ ipc = "send"
    /\ Len(walkChan) < WalkChanCap
    /\ walkChan' = Append(walkChan, pending)
    /\ nEmitted' = IF pending = Sentinel THEN nEmitted ELSE nEmitted + 1
    /\ ipc' = IF pending = Sentinel THEN "waitDone" ELSE "walk"
    /\ pending' = NoItem
    /\ UNCHANGED <<nonIndex, nVisited, iobs>>
    /\ UNCHANGED <<resetFlag, noFollow, hadIndex, args, fs, file, roots, wstack, wi,
                   cpc, seen, inWriter, wlog, added, nConsumed>>

\* part_001:395-412: the consumer receives a value; a new path goes to
\* ix.AddFile
Recv_walkChan ==
    /\ cpc = "recv"
    /\ walkChan # <<>>
    /\ walkChan' = Tail(walkChan)
    /\ LET rootAndPath == Head(walkChan)
           path == rootAndPath[2]
       IN IF IsEnd(rootAndPath)
          THEN /\ cpc' = "signal"
               /\ UNCHANGED <<seen, inWriter, wlog, added, nConsumed>>
          ELSE /\ nConsumed' = nConsumed + 1
               /\ IF path \notin seen
                  THEN /\ seen' = seen \cup {path}
                       /\ added' = Append(added, rootAndPath)
                       /\ wlog' = Append(wlog, "AddFile")
                       /\ inWriter' = inWriter \cup {"consumer"}
                       /\ cpc' = "addfile"
                  ELSE UNCHANGED <<seen, inWriter, wlog, added, cpc>>
    /\ UNCHANGED <<nonIndex, nVisited, iobs>>
    /\ UNCHANGED <<ipc, resetFlag, noFollow, hadIndex, args, fs, file, roots,
                   wstack, wi, pending, nEmitted>>

\* part_001:405-411: ix.AddFile returns true or false, of which the consumer
\* makes a log line only
AddFileReturn ==
    /\ cpc = "addfile"
    /\ \E ok \in BOOLEAN :
          names' = WriterAddFile(names, added[Len(added)][2], ok)
    /\ inWriter' = inWriter \ {"consumer"}
    /\ cpc' = "recv"
    /\ UNCHANGED <<nonIndex, nVisited, content, oldIndex, emitted, walkErr>>
    /\ UNCHANGED <<ipc, resetFlag, noFollow, hadIndex, args, fs, file, roots,
                   wstack, wi, pending, walkChan, seen, wlog, added, nEmitted,
                   nConsumed>>

\* part_001:399-400 and 440: doneChan is unbuffered, the consumer's send and
\* main's receive are one step, after which the consumer returns
Recv_doneChan ==
    /\ ipc = "waitDone"
    /\ DoneReceived
    /\ cpc' = IF cpc = "signal" THEN "exited" ELSE cpc
    /\ ipc' = "flush"
    /\ UNCHANGED <<nonIndex, nVisited, iobs>>
    /\ UNCHANGED <<resetFlag, noFollow, hadIndex, args, fs, file, roots, wstack, wi,
                   pending, walkChan, seen, inWriter, wlog, added, nEmitted,
                   nConsumed>>

\* part_001:442: ix.Flush() is called
FlushCall ==
    /\ ipc = "flush"
    /\ inWriter' = inWriter \cup {"main"}
    /\ wlog' = Append(wlog, "Flush")
    /\ ipc' = "flushing"
    /\ UNCHANGED <<nonIndex, nVisited, iobs>>
    /\ UNCHANGED <<resetFlag, noFollow, hadIndex, args, fs, file, roots, wstack, wi,
                   pending, walkChan, cpc, seen, added, nEmitted, nConsumed>>

\* part_001:442-444: ix.Flush() returns, the file at file is sealed
FlushReturn ==
    /\ ipc = "flushing"
    /\ fs' = IndexFlush(fs, file)
    /\ content' = IndexFlushFiles(content, file, names)
    /\ inWriter' = inWriter \ {"main"}
    /\ ipc' = IF resetFlag THEN "done" ELSE "merge"
    /\ UNCHANGED <<nonIndex, nVisited, names, oldIndex, emitted, walkErr>>
    /\ UNCHANGED <<resetFlag, noFollow, hadIndex, args, file, roots, wstack, wi,
                   pending, walkChan, cpc, seen, wlog, added, nEmitted, nConsumed>>

\* part_001:446: index.Merge(file+"~", master, file) is called
MergeCall ==
    /\ ipc = "merge"
    /\ fs' = IndexMergeBegin(fs, MergeArgs(file).dst)
    /\ wlog' = Append(wlog, "Merge")
    /\ ipc' = "merging"
    /\ UNCHANGED <<nonIndex, nVisited, iobs>>
    /\ UNCHANGED <<resetFlag, noFollow, hadIndex, args, file, roots, wstack, wi,
                   pending, walkChan, cpc, seen, inWriter, added, nEmitted,
                   nConsumed>>

\* part_001:446: index.Merge returns, file+"~" is sealed
MergeReturn ==
    /\ ipc = "merging"
    /\ fs' = IndexMergeEnd(fs, MergeArgs(file).dst)
    /\ content' = LET a == MergeArgs(file)
                  IN IndexMerge(content, a.dst, a.srcA, a.srcB)
    /\ ipc' = "rmfile"
    /\ UNCHANGED <<nonIndex, nVisited, names, oldIndex, emitted, walkErr>>
    /\ UNCHANGED <<resetFlag, noFollow, hadIndex, args, file, roots, wstack, wi,
                   pending, walkChan, cpc, seen, inWriter, wlog, added, nEmitted,
                   nConsumed>>

\* part_001:447: os.Remove(file)
RemoveFile ==
    /\ ipc = "rmfile"
    /\ fs' = Remove(fs, file)
    /\ content' = RemoveFiles(content, file)
    /\ ipc' = "rmmaster"
    /\ UNCHANGED <<nonIndex, nVisited, names, oldIndex, emitted, walkErr>>
    /\ UNCHANGED <<resetFlag, noFollow, hadIndex, args, file, roots, wstack, wi,
                   pending, walkChan, cpc, seen, inWriter, wlog, added, nEmitted,
                   nConsumed>>

\* part_001:448: os.Remove(master)
RemoveMaster ==
    /\ ipc = "rmmaster"
    /\ fs' = Remove(fs, master)
    /\ content' = RemoveFiles(content, master)
    /\ ipc' = "rename"
    /\ UNCHANGED <<nonIndex, nVisited, names, oldIndex, emitted, walkErr>>
    /\ UNCHANGED <<resetFlag, noFollow, hadIndex, args, file, roots, wstack, wi,
                   pending, walkChan, cpc, seen, inWriter, wlog, added, nEmitted,
                   nConsumed>>

\* part_001:449-454: os.Rename(file+"~", master)
RenameMerged ==
    /\ ipc = "rename"
    /\ fs' = Rename(fs, file \o "~", master)
    /\ content' = RenameFiles(content, fs, file \o "~", master)
    /\ ipc' = "done"
    /\ UNCHANGED <<nonIndex, nVisited, names, oldIndex, emitted, walkErr>>
    /\ UNCHANGED <<resetFlag, noFollow, hadIndex, args, file, roots, wstack, wi,
                   pending, walkChan, cpc, seen, inWriter, wlog, added, nEmitted,
                   nConsumed>>

IndexNext ==
    \/ Reset
    \/ LoadArgs
    \/ Stat
    \/ Create
    \/ Go
    \/ WalkCall
    \/ Visit
    \/ WalkReturn
    \/ WalkDone
    \/ Send_walkChan
    \/ Recv_walkChan
    \/ AddFileReturn
    \/ Recv_doneChan
    \/ FlushCall
    \/ FlushReturn
    \/ MergeCall
    \/ MergeReturn
    \/ RemoveFile
    \/ RemoveMaster
    \/ RenameMerged

\* ------------------------------------------------------- claims, cindex
WriterOps == Range(wlog)

Rank(op) ==
    CASE op = "Create" -> 0
      [] op = "AddFile" -> 1
      [] op = "Flush" -> 2
      [] op = "Merge" -> 3

\* the run updates an existing index: one was present and -reset is not set
Updating == hadIndex /\ ~resetFlag

C5_MasterAlwaysExists == Updating => fs[master] # "absent"

\* C9: the writer is used by one goroutine at a time: AddFile only by the
\* consumer, AddPaths before the consumer starts, Flush only after the
\* consumer has signalled completion and returned from its last AddFile.
C9_SingleWriterUser ==
    /\ Cardinality(inWriter) <= 1
    /\ "consumer" \in inWriter <=> cpc = "addfile"
    /\ cpc # "none" => "Create" \in WriterOps /\ roots = args
    /\ "Flush" \in WriterOps => cpc = "exited" /\ "consumer" \notin inWriter

\* C9 witness: Flush is running after the consumer made two AddFile calls
C9_Witness ==
    /\ ipc = "flushing"
    /\ inWriter = {"main"}
    /\ Len(added) >= 2

\* C10: the writer operations of a build are Create, AddFile*, Flush and then
\* Merge exactly when an existing index is updated; at Flush every path the
\* walker sent has been consumed; Merge reads the new index after Flush has
\* sealed it.
C10_WriterOrder ==
    /\ wlog # <<>> => wlog[1] = "Create"
    /\ \A i, j \in 1 .. Len(wlog) :
          i < j => /\ Rank(wlog[i]) <= Rank(wlog[j])
                   /\ wlog[i] = wlog[j] => wlog[i] = "AddFile"
    /\ "Flush" \in WriterOps =>
          /\ walkChan = <<>>
          /\ pending = NoItem
          /\ wstack = <<>>
          /\ nConsumed = nEmitted
    /\ "Merge" \in WriterOps => Updating /\ "Flush" \in WriterOps
    /\ ipc = "merging" => fs[file] = "new" /\ inWriter = {}
    /\ (ipc = "done" /\ wlog # <<>>) =>
          /\ "Flush" \in WriterOps
          /\ "Merge" \in WriterOps <=> Updating

\* C10 witness: an update that made two AddFile calls has ended
C10_Witness ==
    /\ ipc = "done"
    /\ "Merge" \in WriterOps
    /\ Len(added) >= 2
    /\ Len(wlog) = 5

IsPrefix(a, b) == Len(a) <= Len(b) /\ SubSeq(b, 1, Len(a)) = a

\* C11: when cindex updates an existing index (no -reset), the resulting
\* master index holds every file of the old index under its old file-id and
\* the newly indexed files under their ids shifted by the old file count.
C11_UpdatePreservesOld ==
    (Updating /\ ipc = "done") =>
        /\ fs[master] = "merged"
        /\ Len(content[master]) = Len(oldIndex) + Len(names)
        /\ \A i \in 1 .. Len(oldIndex) : content[master][i] = oldIndex[i]
        /\ \A j \in 1 .. Len(names) :
              content[master][Len(oldIndex) + j] = names[j]

\* C11 witness: an update of an index with a file has ended with two newly
\* indexed files
C11_Witness ==
    /\ Updating
    /\ ipc = "done"
    /\ Len(oldIndex) >= 1
    /\ Len(names) >= 2

\* the callback's send that brought path to the consumer first
Origin(path) ==
    LET j == CHOOSE n \in 1 .. Len(emitted) :
                 /\ emitted[n].item[2] = path
                 /\ \A m \in 1 .. (n - 1) : emitted[m].item[2] # path
    IN emitted[j]

\* C12: for every AddFile(k, path) call of cindex, either path was reached
\* through a resolved symlink, k is -1 and path is the full name built from
\* the symlink's location, or k is the position of a root in the list given
\* to AddPaths and path begins with that root.
C12_AddFileRoot ==
    \A i \in 1 .. Len(added) :
        LET k == added[i][1]
            path == added[i][2]
            o == Origin(path)
        IN /\ o.item = added[i]
           /\ IF o.sym
              THEN k = -1 /\ IsPrefix(o.from, path)
              ELSE /\ k \in 0 .. (Len(roots) - 1)
                   /\ IsPrefix(<<roots[k + 1]>>, path)

\* C12 witness: AddFile was called for a file reached through a symlink and
\* for a file under the second root
C12_Witness ==
    /\ \E i \in 1 .. Len(added) : added[i][1] = -1
    /\ \E i \in 1 .. Len(added) : added[i][1] = 1

IsSorted(s) == \A i \in 1 .. Len(s), j \in 1 .. Len(s) : i < j => s[i] <= s[j]

\* the values of s whose path no earlier value of s has
FirstByPath(s) ==
    LET keep == {i \in 1 .. Len(s) : \A m \in 1 .. (i - 1) : s[m][2] # s[i][2]}
        RECURSIVE Pick(_)
        Pick(i) == IF i > Len(s) THEN <<>>
                   ELSE (IF i \in keep THEN <<s[i]>> ELSE <<>>) \o Pick(i + 1)
    IN Pick(1)

\* C13: a run with -reset is a function of the set of paths and of the file
\* tree: the roots are walked in sorted order whatever the order they were
\* given in, AddFile gets the values the walk sent, in the order it sent
\* them, each path once, and the sealed index holds the files AddFile
\* indexed in that order.
C13_Deterministic ==
    resetFlag =>
        /\ ipc \notin {"start", "args"} => IsSorted(args)
        /\ cpc # "none" => roots = args
        /\ added = FirstByPath([n \in 1 .. nConsumed |-> emitted[n].item])
        /\ (ipc = "done" /\ wlog # <<>>) => content[master] = names

\* C13 witness: a run with -reset over two roots has ended, the walk sent a
\* path twice and two files are in the index
C13_Witness ==
    /\ resetFlag
    /\ ipc = "done"
    /\ Len(roots) = 2
    /\ Len(emitted) > Len(added)
    /\ Len(content[master]) = 1

\* C14: an error on a single path met during the walk (failed stat,
\* unreadable directory, unresolvable symlink, unsupported file type, AddFile
\* returning false) never aborts the build: the walk is never ended for a
\* path, the step that meets the error leaves the walk or the consumer
\* going, the run never gets stuck, and a build that ends has called Flush.
C14_ErrorsNeverAbort ==
    /\ [](ipc # "fatalPath")
    /\ [](ipc \in {"done", "fatal", "fatalPattern"} \/ ENABLED IndexNext)
    /\ [](ipc = "fatal" => wlog = <<>>)
    /\ []((ipc = "done" /\ wlog # <<>>) => "Flush" \in WriterOps)
    /\ [][(walkErr' /\ ~walkErr) => ipc' = "walk"]_vars
    /\ [][(cpc = "addfile" /\ cpc' # "addfile" /\ names' = names) =>
             cpc' = "recv"]_vars

\* C14 witness: a build has ended in which a path of the walk met an error,
\* AddFile returned false for a file and a later file was indexed
C14_Witness ==
    /\ ipc = "done"
    /\ "Flush" \in WriterOps
    /\ walkErr
    /\ Len(added) = 2
    /\ names = <<added[2][2]>>

\* ------------------------------------------------------------- mmapFile
\* width of int64
Int64Bits == 2 * HalfBits

\* the constant 4095 of csearch.go:247
PageMask == 2 ^ PageBits - 1

\* largest int64, bound of st.Size()
MaxSize == 2 ^ (Int64Bits - 1) - 1

\* conversion of x to a signed integer of the given width: int(x), int64(x)
ToInt(x, bits) ==
    LET m == 2 ^ bits
        r == x % m
    IN IF r >= m \div 2 THEN r - m ELSE r

\* conversion to an unsigned integer of the given width: uint32(x)
ToUint(x, bits) == x % (2 ^ bits)

\* a + b in int64
Add64(a, b) == ToInt(a + b, Int64Bits)

\* csearch.go:247: int64(int(size+4095)) != size+4095, ib the width of int
TooLarge(size, ib) == ToInt(Add64(size, PageMask), ib) # Add64(size, PageMask)

\* csearch.go:253: uint32(size>>32) and uint32(size)
SizeHighZero(size) == 0

SizeHigh(size) == ToUint(size \div (2 ^ HalfBits), HalfBits)

SizeLow(size) == ToUint(size, HalfBits)

\* csearch.go:267-268: int(size)
SliceLen(size, ib) == ToInt(size, ib)

\* the size of the file mapping that CreateFileMapping makes
MappingSize(high, low) == high * (2 ^ HalfBits) + low

MmapInit ==
    /\ mpc = "stat"
    /\ msize \in 0 .. MaxSize
    /\ intBits \in {HalfBits, Int64Bits}
    /\ mapHigh = 0
    /\ mapLow = 0
    /\ viewLen = 0
    /\ dataLen = 0
    /\ dataCap = 0

\* csearch.go:242-252: f.Stat(), the size check, the empty file
MmapStat ==
    /\ mpc = "stat"
    /\ \E statOk \in BOOLEAN :
          mpc' = IF ~statOk THEN "fatal"
                 ELSE IF TooLarge(msize, intBits) THEN "tooLarge"
                 ELSE IF msize = 0 THEN "ret"
                 ELSE "create"
    /\ UNCHANGED nonMmap
    /\ UNCHANGED <<msize, intBits, mapHigh, mapLow, viewLen, dataLen, dataCap>>

\* csearch.go:253-256: syscall.CreateFileMapping
MmapCreate ==
    /\ mpc = "create"
    /\ mapHigh' = SizeHigh(msize)
    /\ mapLow' = SizeLow(msize)
    /\ \E ok \in BOOLEAN : mpc' = IF ok THEN "view" ELSE "fatal"
    /\ UNCHANGED nonMmap
    /\ UNCHANGED <<msize, intBits, viewLen, dataLen, dataCap>>

\* csearch.go:258-261: syscall.MapViewOfFile(h, FILE_MAP_READ, 0, 0, 0) maps
\* the file mapping from offset 0 to its end
MmapView ==
    /\ mpc = "view"
    /\ \E ok \in BOOLEAN :
          IF ok THEN mpc' = "slice" /\ viewLen' = MappingSize(mapHigh, mapLow)
          ELSE mpc' = "fatal" /\ viewLen' = viewLen
    /\ UNCHANGED nonMmap
    /\ UNCHANGED <<msize, intBits, mapHigh, mapLow, dataLen, dataCap>>

\* csearch.go:263-270: the slice header over the view
MmapSlice ==
    /\ mpc = "slice"
    /\ dataLen' = SliceLen(msize, intBits)
    /\ dataCap' = SliceLen(msize, intBits)
    /\ mpc' = "ret"
    /\ UNCHANGED nonMmap
    /\ UNCHANGED <<msize, intBits, mapHigh, mapLow, viewLen>>

MmapNext ==
    \/ MmapStat
    \/ MmapCreate
    \/ MmapView
    \/ MmapSlice

\* ------------------------------------------------------ claims, mmapFile
\* the mapping call has been made for a file that is not empty
Mapped == mpc \in {"view", "slice", "ret"} /\ msize > 0

\* what the claim says of the sizes that are mapped
FullSizeMapped ==
    /\ Mapped => MappingSize(mapHigh, mapLow) = msize
    /\ (mpc \in {"slice", "ret"} /\ msize > 0) => viewLen = msize
    /\ (mpc = "ret" /\ msize > 0) => dataLen = msize /\ dataCap = msize

\* C16 as stated: for every size s with 0 < s < 2^63 mmapFile passes the
\* full size to the mapping call as (high, low) with high * 2^32 + low = s
\* and returns a slice of length and capacity s; no size is refused.
C16_EverySizeMapped == mpc # "tooLarge" /\ FullSizeMapped

\* C16 as amended: where int has 64 bits no size is refused; where int has
\* 32 bits exactly the sizes s with s + 4095 >= 2^31 are refused as too
\* large; every file that is mapped is mapped with its full size as (high,
\* low) and the slice has length and capacity s.
C16_MappedOrRefused ==
    /\ FullSizeMapped
    /\ intBits = Int64Bits => mpc # "tooLarge"
    /\ mpc = "tooLarge" => msize + PageMask >= 2 ^ (HalfBits - 1)
    /\ (intBits = HalfBits /\ msize + PageMask >= 2 ^ (HalfBits - 1)) =>
          mpc \in {"stat", "fatal", "tooLarge"}

\* C16 witness: a file whose size does not fit the low word has been
\* mapped and mmapFile has returned the slice
C16_Witness ==
    /\ mpc = "ret"
    /\ msize >= 2 ^ HalfBits
    /\ mapHigh > 0
    /\ mapLow > 0
    /\ dataLen = msize

\* --------------------------------------- package index: posting lists
\* base of the varint encoding (128)
VarintBase == 2 ^ VarintBits

\* varint: base-128, little-endian, the high bit of a byte says that another
\* byte follows
RECURSIVE Varint(_)
Varint(n) ==
    IF n < VarintBase THEN <<n>>
    ELSE <<(n % VarintBase) + VarintBase>> \o Varint(n \div VarintBase)

\* reads one varint from the front of bytes b; of no bytes it makes 0
RECURSIVE ReadVarint(_)
ReadVarint(b) ==
    IF b = <<>> THEN [val |-> 0, rest |-> <<>>]
    ELSE IF Head(b) < VarintBase THEN [val |-> Head(b), rest |-> Tail(b)]
    ELSE LET r == ReadVarint(Tail(b))
         IN [val |-> (Head(b) - VarintBase) + VarintBase * r.val,
             rest |-> r.rest]

\* the deltas of an ascending list, the first taken from 0
Deltas(ids) == [i \in 1 .. Len(ids) |-> IF i = 1 THEN ids[1] ELSE ids[i] - ids[i - 1]]

\* number of deltas of 1 at the front of d
RECURSIVE RunLength(_)
RunLength(d) == IF d # <<>> /\ Head(d) = 1 THEN 1 + RunLength(Tail(d)) ELSE 0

\* the deltas as bytes: a run of k >= 2 deltas of 1 is the byte 0 and the
\* varint k, any other delta its varint, a varint 0 ends the list
RECURSIVE EncodeDeltas(_)
EncodeDeltas(d) ==
    IF d = <<>> THEN Varint(0)
    ELSE LET k == RunLength(d)
         IN IF k >= 2
            THEN <<0>> \o Varint(k) \o EncodeDeltas(SubSeq(d, k + 1, Len(d)))
            ELSE Varint(Head(d)) \o EncodeDeltas(Tail(d))

\* the writer's encoding of a posting list
EncodePosting(ids) == EncodeDeltas(Deltas(ids))

\* the reader: a varint 0 followed by a length that is not 0 is a run of
\* file-ids, any other varint 0 ends the list
RECURSIVE DecodeFrom(_, _)
DecodeFrom(prev, b) ==
    LET v == ReadVarint(b)
        k == ReadVarint(v.rest)
    IN IF b = <<>> THEN <<>>
       ELSE IF v.val # 0 THEN <<prev + v.val>> \o DecodeFrom(prev + v.val, v.rest)
       ELSE IF k.val # 0
            THEN [i \in 1 .. k.val |-> prev + i] \o DecodeFrom(prev + k.val, k.rest)
       ELSE <<>>

DecodePosting(b) == DecodeFrom(0, b)

\* the posting lists: the strictly ascending lists of file-ids
PostingLists == {SortedSeq(S) : S \in SUBSET (0 .. MaxId)}

PostInit ==
    /\ ppc = "encode"
    /\ fileids \in PostingLists
    /\ enc = <<>>
    /\ dec = <<>>

\* the writer puts the list into the index file
Encode ==
    /\ ppc = "encode"
    /\ enc' = EncodePosting(fileids)
    /\ ppc' = "decode"
    /\ UNCHANGED nonPost
    /\ UNCHANGED <<fileids, dec>>

\* the reader gets the list from the index file
Decode ==
    /\ ppc = "decode"
    /\ dec' = DecodePosting(enc)
    /\ ppc' = "done"
    /\ UNCHANGED nonPost
    /\ UNCHANGED <<fileids, enc>>

PostNext ==
    \/ Encode
    \/ Decode

\* ------------------------------------------------- claims, posting lists
\* C17: the posting-list encoding round-trips: for every strictly ascending
\* list of file-ids, also one that starts with id 0 and one that ends in a
\* run, decoding the encoding gives the list back.
C17_RoundTrip == ppc = "done" => dec = fileids

\* ------------------------------------------------------------------ cdump
\* the indexes cdump can find, as the list of their file-ids
DumpIndexes == {[i \in 1 .. n |-> i - 1] : n \in 0 .. MaxFiles}

\* index.Open: the reader it returns is not verbose
OpenVerbose == FALSE

\* ix.Dump(&options): what the dump is made with; the index is only read
IndexDump(verbose, opts, files) ==
    <<[Verbose |-> verbose, Names |-> opts.Names, files |-> files]>>

DumpInit ==
    /\ dpc = "start"
    /\ verboseFlag \in BOOLEAN
    /\ namesFlag \in BOOLEAN
    /\ dArgs \in 0 .. MaxArgs
    /\ indexPath \in BOOLEAN
    /\ envIndex = FALSE
    /\ ixVerbose = FALSE
    /\ ixFiles \in DumpIndexes
    /\ options = [Names |-> FALSE]
    /\ dumpSaw = <<>>
    /\ dExit = -1

\* cdump.go:43-47 and 28-31: arguments after the flags end in usage()
DumpUsage ==
    /\ dpc = "start"
    /\ IF dArgs # 0
       THEN dpc' = "usage" /\ dExit' = 2
       ELSE dpc' = "env" /\ dExit' = dExit
    /\ UNCHANGED nonDump
    /\ UNCHANGED <<verboseFlag, namesFlag, dArgs, indexPath, envIndex, ixVerbose,
                   ixFiles, options, dumpSaw>>

\* cdump.go:49-54: -indexpath goes to the environment, log.Fatal if that
\* fails
DumpSetenv ==
    /\ dpc = "env"
    /\ IF indexPath
       THEN \E ok \in BOOLEAN :
               /\ envIndex' = ok
               /\ dpc' = IF ok THEN "open" ELSE "fatal"
       ELSE envIndex' = envIndex /\ dpc' = "open"
    /\ UNCHANGED nonDump
    /\ UNCHANGED <<verboseFlag, namesFlag, dArgs, indexPath, ixVerbose, ixFiles,
                   options, dumpSaw, dExit>>

\* cdump.go:56-57: options.Names = *names; ix := index.Open(index.File())
DumpOpen ==
    /\ dpc = "open"
    /\ options' = [options EXCEPT !.Names = namesFlag]
    /\ ixVerbose' = OpenVerbose
    /\ dpc' = "dump"
    /\ UNCHANGED nonDump
    /\ UNCHANGED <<verboseFlag, namesFlag, dArgs, indexPath, envIndex, ixFiles,
                   dumpSaw, dExit>>

\* cdump.go:58: ix.Dump(&options)
DumpRun ==
    /\ dpc = "dump"
    /\ dumpSaw' = IndexDump(ixVerbose, options, ixFiles)
    /\ dpc' = "verbose"
    /\ UNCHANGED nonDump
    /\ UNCHANGED <<verboseFlag, namesFlag, dArgs, indexPath, envIndex, ixVerbose,
                   ixFiles, options, dExit>>

\* cdump.go:59: ix.Verbose = *verboseFlag
DumpSetVerbose ==
    /\ dpc = "verbose"
    /\ ixVerbose' = verboseFlag
    /\ dpc' = "ret"
    /\ UNCHANGED nonDump
    /\ UNCHANGED <<verboseFlag, namesFlag, dArgs, indexPath, envIndex, ixFiles,
                   options, dumpSaw, dExit>>

\* cdump.go:62-65: main exits with code 0
DumpExit ==
    /\ dpc = "ret"
    /\ dExit' = 0
    /\ dpc' = "exit"
    /\ UNCHANGED nonDump
    /\ UNCHANGED <<verboseFlag, namesFlag, dArgs, indexPath, envIndex, ixVerbose,
                   ixFiles, options, dumpSaw>>

DumpNext ==
    \/ DumpUsage
    \/ DumpSetenv
    \/ DumpOpen
    \/ DumpRun
    \/ DumpSetVerbose
    \/ DumpExit

\* ---------------------------------------------------------- claims, cdump
\* C18: in cdump -verbose takes effect on the dump: when Dump runs the
\* reader's Verbose is the value of the flag, and Dump leaves the index as
\* it was.
C18_VerboseBeforeDump ==
    dumpSaw # <<>> =>
        /\ dumpSaw[1].Verbose = verboseFlag
        /\ dumpSaw[1].files = ixFiles

\* ---------------------------------------------------------- specifications
\* csearch is not running
SearchIdle ==
    /\ pc = "off"
    /\ oneThread = FALSE
    /\ nParallel = 1
    /\ maxCount = 0
    /\ fFlag = FALSE
    /\ qpost = <<>>
    /\ post = <<>>
    /\ g = NewGrep
    /\ matches = FALSE
    /\ idx = 0
    /\ myg = [w \in Workers |-> NewGrep]
    /\ wpc = [w \in Workers |-> "none"]
    /\ closed = FALSE
    /\ wg = 0
    /\ exitCode = -1
    /\ searched = <<>>
    /\ produced = FALSE
    /\ printed = 0
    /\ usedBy = [r \in 0 .. MaxWorkers |-> {}]
    /\ nArgs = 0
    /\ gL = FALSE
    /\ gC = FALSE
    /\ maxCountPerFile = 0
    /\ opened = FALSE

\* cindex is not running
IndexIdle ==
    /\ ipc = "off"
    /\ resetFlag = FALSE
    /\ noFollow = FALSE
    /\ hadIndex = FALSE
    /\ args = <<>>
    /\ fs = [p \in IndexPaths |-> "absent"]
    /\ file = ""
    /\ roots = <<>>
    /\ wstack = <<>>
    /\ wi = 0
    /\ pending = NoItem
    /\ walkChan = <<>>
    /\ cpc = "none"
    /\ seen = {}
    /\ inWriter = {}
    /\ wlog = <<>>
    /\ added = <<>>
    /\ nEmitted = 0
    /\ nConsumed = 0
    /\ nVisited = 0
    /\ content = [p \in IndexPaths |-> <<>>]
    /\ names = <<>>
    /\ oldIndex = <<>>
    /\ emitted = <<>>
    /\ walkErr = FALSE

\* mmapFile is not running
MmapIdle ==
    /\ mpc = "off"
    /\ msize = 0
    /\ intBits = 0
    /\ mapHigh = 0
    /\ mapLow = 0
    /\ viewLen = 0
    /\ dataLen = 0
    /\ dataCap = 0

\* no posting list is written or read
PostIdle ==
    /\ ppc = "off"
    /\ fileids = <<>>
    /\ enc = <<>>
    /\ dec = <<>>

\* cdump is not running
DumpIdle ==
    /\ dpc = "off"
    /\ verboseFlag = FALSE
    /\ namesFlag = FALSE
    /\ dArgs = 0
    /\ indexPath = FALSE
    /\ envIndex = FALSE
    /\ ixVerbose = FALSE
    /\ ixFiles = <<>>
    /\ options = [Names |-> FALSE]
    /\ dumpSaw = <<>>
    /\ dExit = -1

OthersIdle == MmapIdle /\ PostIdle /\ DumpIdle

\* one run of csearch
Init == SearchInit /\ IndexIdle /\ OthersIdle

Next == SearchNext

Spec == Init /\ [][Next]_vars

\* the runs of csearch that search in parallel (no -1, a command line that
\* is accepted), in which a goroutine that can run does run
InitParallel ==
    /\ Init
    /\ ~oneThread
    /\ ~UsageError(nArgs, gL, gC, maxCountPerFile)

NextParallel ==
    \/ Usage
    \/ Query
    \/ Filter
    \/ Limit
    \/ Spawn
    \/ \E w \in Workers : Send(w)
    \/ \E w \in Workers : WorkerReturn(w)
    \/ Close
    \/ \E w \in Workers : WorkerExit(w)
    \/ Wait
    \/ MainExit

SpecFair == InitParallel /\ [][NextParallel]_vars /\ WF_vars(NextParallel)

\* one posting list written and read
InitPost == PostInit /\ SearchIdle /\ IndexIdle /\ MmapIdle /\ DumpIdle

NextPost == PostNext

SpecPost == InitPost /\ [][NextPost]_vars

\* one run of cdump
InitDump == DumpInit /\ SearchIdle /\ IndexIdle /\ MmapIdle /\ PostIdle

NextDump == DumpNext

SpecDump == InitDump /\ [][NextDump]_vars

\* one call of mmapFile
InitMmap == MmapInit /\ SearchIdle /\ IndexIdle /\ PostIdle /\ DumpIdle

NextMmap == MmapNext

SpecMmap == InitMmap /\ [][NextMmap]_vars

\* one run of cindex
InitIndex == IndexInit /\ SearchIdle /\ OthersIdle

NextIndex == IndexNext

SpecIndex == InitIndex /\ [][NextIndex]_vars

====
